---- MODULE Spec2Model ----
(***************************************************************************)
(* Model of the AI Music Studio backend (src/main.py).                     *)
(*                                                                         *)
(* Strings are sequences of one-character strings, so that split(),        *)
(* lower(), startswith() and concatenation are computed, not assumed.      *)
(* File names are sequences of tokens (a uuid, "_", a stem name, ".wav"),  *)
(* so that two different requests can build the same file name.            *)
(* The process-wide random source is a state machine: each draw reads the  *)
(* state and advances it; seeding overwrites the state.                    *)
(***************************************************************************)
EXTENDS Integers, Sequences, FiniteSets, TLC

VARIABLES keyIn, rng, seeded, calls, resp, audioDir, uploadDir, midiDir, issued, nextUid

vars == <<keyIn, rng, seeded, calls, resp, audioDir, uploadDir, midiDir, issued, nextUid>>

storeVars == <<audioDir, uploadDir, midiDir, issued, nextUid>>

(* ------------------------------ bounds --------------------------------- *)

\* number of states of the random source
RngMod == 64
\* bar counts range over -1..MaxBars
MaxBars == 1
\* seeds range over 0..MaxSeed
MaxSeed == 2
\* number of uuids the process hands out in one run
MaxUids == 2

(* ------------------------------ strings -------------------------------- *)

UPPER == <<"A","B","C","D","E","F","G","H","I","J","K","L","M",
           "N","O","P","Q","R","S","T","U","V","W","X","Y","Z">>
LOWER == <<"a","b","c","d","e","f","g","h","i","j","k","l","m",
           "n","o","p","q","r","s","t","u","v","w","x","y","z">>

\* the characters str.split() treats as separators
Whitespace == {" ", "\t"}

\* str.lower(), one character
lowerChar(c) ==
  IF \E i \in 1..Len(UPPER) : UPPER[i] = c
  THEN LOWER[CHOOSE i \in 1..Len(UPPER) : UPPER[i] = c]
  ELSE c

\* str.lower()
lower(s) == [i \in 1..Len(s) |-> lowerChar(s[i])]

\* str.startswith(prefix)
startswith(s, prefix) ==
  /\ Len(s) >= Len(prefix)
  /\ SubSeq(s, 1, Len(prefix)) = prefix

\* str.split() with no argument: the maximal runs of non-whitespace
RECURSIVE splitFrom(_, _, _)
splitFrom(s, cur, out) ==
  IF s = <<>>
  THEN (IF cur = <<>> THEN out ELSE Append(out, cur))
  ELSE IF Head(s) \in Whitespace
       THEN splitFrom(Tail(s), <<>>, IF cur = <<>> THEN out ELSE Append(out, cur))
       ELSE splitFrom(Tail(s), Append(cur, Head(s)), out)

split(s) == splitFrom(s, <<>>, <<>>)

\* str(n) for the one-digit octaves
str(n) == <<ToString(n)>>

(* --------------------------- theory helpers ---------------------------- *)

NOTES_SHARP == << <<"C">>, <<"C","#">>, <<"D">>, <<"D","#">>, <<"E">>, <<"F">>,
                  <<"F","#">>, <<"G">>, <<"G","#">>, <<"A">>, <<"A","#">>, <<"B">> >>

\* faulty variant: the half step of the major pattern one place late
major_steps_late == <<2, 2, 2, 1, 2, 2, 1>>

major_steps == <<2, 2, 1, 2, 2, 2, 1>>
minor_steps == <<2, 1, 2, 2, 1, 2, 2>>

sMajor == <<"M","a","j","o","r">>
sMinor == <<"M","i","n","o","r">>
sMaj == <<"m","a","j">>

\* tonic in NOTES_SHARP
inNotes(t) == \E i \in 1..Len(NOTES_SHARP) : NOTES_SHARP[i] = t

\* NOTES_SHARP.index(t), 0-based; -1 stands for the ValueError of list.index
index(t) ==
  IF inNotes(t) THEN (CHOOSE i \in 1..Len(NOTES_SHARP) : NOTES_SHARP[i] = t) - 1
  ELSE -1

\* tonic, quality = key.split(), with the ValueError fallback
unpackKey(key) ==
  LET parts == split(key) IN
  IF Len(parts) = 2 THEN [tonic |-> parts[1], quality |-> parts[2]]
  ELSE [tonic |-> key, quality |-> sMajor]

\* faulty variant: an unknown tonic is kept
normTonic_keep(tonic) == tonic

\* faulty variant: an unknown tonic falls back to "A"
normTonic_A(tonic) == IF \E i \in 1..Len(NOTES_SHARP) : NOTES_SHARP[i] = tonic THEN tonic ELSE <<"A">>

\* if tonic not in NOTES_SHARP: tonic = "C"
normTonic(tonic) == IF inNotes(tonic) THEN tonic ELSE <<"C">>

\* faulty variant: the comparison with "maj" is case-sensitive
chooseSteps_cased(quality) ==
  IF startswith(quality, sMaj) THEN major_steps ELSE minor_steps

\* steps = major_steps if quality.lower().startswith("maj") else minor_steps
chooseSteps(quality) ==
  IF startswith(lower(quality), sMaj) THEN major_steps ELSE minor_steps

\* the loop over steps[:-1]
RECURSIVE walk(_, _, _)
walk(idx, steps, scale) ==
  IF steps = <<>> THEN scale
  ELSE LET nidx == (idx + Head(steps)) % 12
       IN walk(nidx, Tail(steps), Append(scale, NOTES_SHARP[nidx + 1]))

\* build_scale(key); error "ValueError" stands for the uncaught exception of
\* list.index, and then no scale is returned
build_scale(key) ==
  LET kq == unpackKey(key)
      tonic == normTonic(kq.tonic)
      steps == chooseSteps(kq.quality)
      idx == index(tonic)
  IN IF idx < 0 THEN [error |-> "ValueError", scale |-> <<>>]
     ELSE [error |-> "none",
           scale |-> walk(idx, SubSeq(steps, 1, Len(steps) - 1), <<tonic>>)]

degrees == <<0, 5, 3, 4>>

\* faulty variant: degree 3 is labelled minor as well
chordLabel_iv(scale, d) == scale[d + 1] \o (IF d \in {0, 4} THEN <<>> ELSE <<"m">>)

\* f"{scale[d]}{'' if d in [0,3,4] else 'm'}"
chordLabel(scale, d) == scale[d + 1] \o (IF d \in {0, 3, 4} THEN <<>> ELSE <<"m">>)

(* --------------------------- random source ----------------------------- *)

\* the state of the random source after one draw
rngNext(s) == (5 * s + 3) % RngMod

\* the index random.choice draws from a sequence of n elements in state s
randbelow(s, n) == (s \div 2) % n

\* faulty variant: a third octave
OCTAVES_three == <<4, 5, 6>>

DURATIONS == <<"0.5", "1.0", "1.0", "2.0">>
OCTAVES == <<4, 5>>

\* faulty variant: the pitch is drawn from a source the seed does not reset
melodyEntry_unseeded(s, scale) ==
  LET s1 == rngNext(s)
      s2 == rngNext(s1)
      n == scale[randbelow(s + Len(calls), Len(scale)) + 1]
      dur == DURATIONS[randbelow(s1, Len(DURATIONS)) + 1]
      oct == OCTAVES[randbelow(s2, Len(OCTAVES)) + 1]
  IN [note |-> n \o str(oct), duration |-> dur]

\* one iteration of the melody loop: three draws, in the order of the code
melodyEntry(s, scale) ==
  LET s1 == rngNext(s)
      s2 == rngNext(s1)
      n == scale[randbelow(s, Len(scale)) + 1]
      dur == DURATIONS[randbelow(s1, Len(DURATIONS)) + 1]
      oct == OCTAVES[randbelow(s2, Len(OCTAVES)) + 1]
  IN [note |-> n \o str(oct), duration |-> dur]

\* range(n): the number of iterations
rangeLen(n) == IF n > 0 THEN n ELSE 0

\* faulty variant: three notes per bar
noteCount_three(bars) == rangeLen(bars * 3)

\* range(bars * 4): 4 notes per bar
noteCount(bars) == rangeLen(bars * 4)

\* the melody loop, count iterations from random state s
RECURSIVE melodyLoop(_, _, _, _)
melodyLoop(s, scale, count, melody) ==
  IF count = 0 THEN [melody |-> melody, rng |-> s]
  ELSE melodyLoop(rngNext(rngNext(rngNext(s))), scale, count - 1,
                  Append(melody, melodyEntry(s, scale)))

(* ------------------------------ inputs --------------------------------- *)

ValidTonics == {NOTES_SHARP[i] : i \in 1..Len(NOTES_SHARP)}
InvalidTonics == {<<"Z">>, <<"D","b">>, <<"c">>}
Tonics == ValidTonics \cup InvalidTonics

MajorMinor == {sMajor, sMinor}
OtherQualities == {<<"m","a","j","o","r">>, <<"M","A","J","7">>, <<"M","a">>,
                   <<"m","i","n">>, <<"D","o","r","i","a","n">>}
Qualities == MajorMinor \cup OtherQualities

\* "T Q"
keyOf(t, q) == t \o <<" ">> \o q

TwoTokenKeys == {keyOf(t, q) : t \in Tonics, q \in Qualities}

\* two tokens with other separators, or with leading and trailing whitespace
SpacedKeys ==
  UNION {{t \o <<" ", " ">> \o q, t \o <<"\t">> \o q, <<" ">> \o t \o <<" ">> \o q \o <<" ">>} :
         t \in {<<"A">>, <<"Z">>}, q \in {sMinor, <<"D","o","r","i","a","n">>}}

OneTokenKeys == Tonics \cup {sMajor, sMinor, <<" ">> \o sMinor}

ThreeTokenKeys ==
  {keyOf(keyOf(t, q), x) : t \in {<<"A">>, <<"Z">>}, q \in MajorMinor,
                           x \in {<<"x">>, <<"7">> \o <<" ">> \o <<"b">>}}

EmptyKeys == {<<>>, <<" ">>}

Keys == TwoTokenKeys \cup SpacedKeys \cup OneTokenKeys \cup ThreeTokenKeys \cup EmptyKeys

Bars == -1..MaxBars
Bpms == {90, 120}
Seeds == 0..MaxSeed

SeededKeys == {keyOf(<<"C">>, sMajor), keyOf(<<"F","#">>, sMinor)}
SeededBpms == {90}

(* --------------------------- theory actions ---------------------------- *)

\* keyIn is the key string the client passes in this run

NoResp == [op |-> "none"]

\* a direct call of build_scale(keyIn)
BuildScale ==
  /\ resp' = [op |-> "build_scale", req |-> [key |-> keyIn], result |-> build_scale(keyIn)]
  /\ UNCHANGED <<keyIn, rng, seeded, calls, storeVars>>

\* GET /api/generate/chords
GenerateChords ==
  \E r \in {build_scale(keyIn)} :
  /\ resp' = IF r.error # "none"
             THEN [op |-> "generate_chords", req |-> [key |-> keyIn], status |-> 500]
             ELSE [op |-> "generate_chords", req |-> [key |-> keyIn], status |-> 200,
                   body |-> [key |-> keyIn,
                             progression |-> [i \in 1..Len(degrees) |->
                                                chordLabel(r.scale, degrees[i])]]]
  /\ UNCHANGED <<keyIn, rng, seeded, calls, storeVars>>

\* the most recent entry of the log of seeded calls, as a log of length <= 1
lastOf(log) == IF log = <<>> THEN <<>> ELSE <<log[Len(log)]>>

\* GET /api/generate/melody
\* calls keeps the last two calls made right after a Seed: the seed, the
\* request and the melody returned
GenerateMelody(bars, bpm) ==
  \E r \in {build_scale(keyIn)} :
  LET req == [key |-> keyIn, bars |-> bars, bpm |-> bpm] IN
  /\ IF r.error # "none"
     THEN /\ resp' = [op |-> "generate_melody", req |-> req, status |-> 500]
          /\ UNCHANGED <<rng, calls>>
     ELSE \E m \in {melodyLoop(rng, r.scale, noteCount(bars), <<>>)} :
          /\ resp' = [op |-> "generate_melody", req |-> req, status |-> 200,
                      body |-> [key |-> keyIn, bpm |-> bpm, melody |-> m.melody]]
          /\ rng' = m.rng
          /\ calls' = IF seeded < 0 THEN calls
                      ELSE lastOf(calls)
                           \o <<[seed |-> seeded, req |-> req, melody |-> m.melody]>>
  /\ seeded' = -1
  /\ UNCHANGED <<keyIn, storeVars>>

\* random.seed(s), as a test harness calls it before generate_melody
Seed(s) ==
  /\ rng' = s % RngMod
  /\ seeded' = s
  /\ UNCHANGED <<keyIn, calls, resp, storeVars>>

(* ------------------------------ storage -------------------------------- *)

\* A file name is a sequence of tokens.  audioDir maps the names of the files
\* of AUDIO_DIR to their contents (seconds, frequency in tenths of Hz, volume
\* in hundredths); uploadDir and midiDir are the sets of names of the files of
\* UPLOAD_DIR and MIDI_DIR.

\* str(uuid.uuid4()) for the n-th uuid of the run: uuids are taken to be fresh
uuid4(n) == <<ToString(n)>>

EXTS == {".wav", ".mp3"}

\* os.path.splitext(filename or "")[1]
splitext1(filename) ==
  IF Len(filename) >= 2 /\ filename[Len(filename)] \in EXTS
  THEN <<filename[Len(filename)]>> ELSE <<>>

\* x or default, for strings
orDefault(x, default) == IF x = <<>> THEN default ELSE x

\* os.path.exists(os.path.join(AUDIO_DIR, name))
exists(dir, name) == name \in dir

\* _sine_wave_to_wav(path, seconds, freq, volume): creates or truncates path
sine_wave_to_wav(dir, path, seconds, freq10, volume100) ==
  (path :> [seconds |-> seconds, freq10 |-> freq10, volume100 |-> volume100]) @@ dir

\* faulty variant: the generated file gets another extension
audio_path_mp3(uid) == uid \o <<".mp3">>

\* f"{uid}.wav" in generate_music
audio_path(uid) == uid \o <<".wav">>

\* f"{uid}.wav" in remix
remix_out(uid) == uid \o <<".wav">>

\* f"{music_id}.wav" in export_audio and master_track
wav_path(music_id) == music_id \o <<".wav">>

\* f"{music_id}_{name}.wav" in export_stems
stem_path(music_id, name) == music_id \o <<"_", name, ".wav">>

\* f"/static/audio/{uid}.wav"
audio_url(uid) == <<"/static/audio/">> \o uid \o <<".wav">>

\* freq = 110.0 + (req.bpm - 40) * 1.5 if req.bpm else 220.0, in tenths of Hz
music_freq10(bpm) == IF bpm # 0 THEN 1100 + (bpm - 40) * 15 ELSE 2200

STEM_NAMES == <<"vocals", "drums", "bass", "piano", "synth">>
STEM_FREQ10 == <<4400, 1200, 550, 2616, 3296>>

ANALYSIS_KEYS == <<"C Major", "A Minor", "G Minor", "D Major", "F# Minor">>
ANALYSIS_STYLES == <<"LoFi", "Trap", "EDM", "Rock", "Bollywood", "Chillhop", "Romantic">>
REMIX_FREQS10 == <<2000, 2400, 3000>>

\* _random_bpm_key_style(): three draws
random_bpm_key_style(s) ==
  LET s1 == rngNext(s)
      s2 == rngNext(s1)
  IN [bpm |-> 70 + randbelow(s, 71),
      key |-> ANALYSIS_KEYS[randbelow(s1, Len(ANALYSIS_KEYS)) + 1],
      style |-> ANALYSIS_STYLES[randbelow(s2, Len(ANALYSIS_STYLES)) + 1]]

\* the loop of export_stems over the first n stems
RECURSIVE stemsLoop(_, _, _)
stemsLoop(dir, music_id, n) ==
  IF n = 0 THEN dir
  ELSE LET d == stemsLoop(dir, music_id, n - 1)
           p == stem_path(music_id, STEM_NAMES[n])
       IN IF exists(DOMAIN d, p) THEN d
          ELSE sine_wave_to_wav(d, p, 6, STEM_FREQ10[n], 25)

NotFound == [status |-> 404, body |-> [error |-> "Audio not found"]]

\* the response of export_audio(music_id, ext)
export_audio(music_id, ext) ==
  IF ~ exists(DOMAIN audioDir, wav_path(music_id)) THEN NotFound
  ELSE [status |-> 200, path |-> wav_path(music_id), media_type |-> "audio/wav",
        file |-> audioDir[wav_path(music_id)],
        filename |-> <<"track_">> \o music_id \o <<".", ext>>]

\* the response of master_track(music_id, preset)
master_track(music_id, preset) ==
  IF ~ exists(DOMAIN audioDir, wav_path(music_id)) THEN NotFound
  ELSE [status |-> 200,
        body |-> [id |-> music_id, preset |-> preset, audio_url |-> audio_url(music_id)]]

(* ------------------------------ requests ------------------------------- *)

UidTokens == {ToString(n) : n \in 1..MaxUids}

\* the ids a client asks for: issued uuids, a made-up id, and each of them
\* followed by a stem suffix
BaseIds == {<<t>> : t \in UidTokens \cup {"zz"}}
ReadIds == BaseIds \cup {b \o <<"_", "vocals">> : b \in BaseIds}
StemIds == {<<"1">>, <<"zz">>}
MidiIds == {<<"1">>}
VideoIds == {<<>>, <<"zz">>}
ExportExts == {"wav", "mp3"}
Presets == {"Warm Analog"}
GenBpms == {90}
Filenames == {<<>>, <<"take", ".wav">>}
Styles == {"LoFi"}

(* --------------------------- storage actions --------------------------- *)

\* POST /api/upload/reference
UploadReference(filename) ==
  /\ nextUid < MaxUids
  /\ LET uid == uuid4(nextUid + 1)
         ext == orDefault(splitext1(filename), <<".mp3">>)
     IN /\ uploadDir' = uploadDir \cup {<<"ref_">> \o uid \o ext}
        /\ resp' = [op |-> "upload_reference", status |-> 200,
                    body |-> [id |-> uid, analysis |-> random_bpm_key_style(rng)]]
  /\ rng' = rngNext(rngNext(rngNext(rng)))
  /\ nextUid' = nextUid + 1
  /\ seeded' = -1
  /\ UNCHANGED <<keyIn, calls, audioDir, midiDir, issued>>

\* POST /api/upload/voice
UploadVoice(filename) ==
  /\ nextUid < MaxUids
  /\ LET uid == uuid4(nextUid + 1)
         ext == orDefault(splitext1(filename), <<".wav">>)
     IN /\ uploadDir' = uploadDir \cup {<<"voice_">> \o uid \o ext}
        /\ resp' = [op |-> "upload_voice", status |-> 200, body |-> [id |-> uid]]
  /\ nextUid' = nextUid + 1
  /\ UNCHANGED <<keyIn, rng, seeded, calls, audioDir, midiDir, issued>>

\* POST /api/generate/music
GenerateMusic(bpm) ==
  /\ nextUid < MaxUids
  /\ LET uid == uuid4(nextUid + 1) IN
     /\ audioDir' = sine_wave_to_wav(audioDir, audio_path(uid), 10, music_freq10(bpm), 30)
     /\ resp' = [op |-> "generate_music", status |-> 200,
                 body |-> [id |-> uid, audio_url |-> audio_url(uid), audio_format |-> "wav"]]
     /\ issued' = issued \cup {[id |-> uid, op |-> "generate_music"]}
  /\ nextUid' = nextUid + 1
  /\ UNCHANGED <<keyIn, rng, seeded, calls, uploadDir, midiDir>>

\* POST /api/generate/video
GenerateVideo(music_id) ==
  /\ music_id = <<>> => nextUid < MaxUids
  /\ LET uid == orDefault(music_id, uuid4(nextUid + 1)) IN
     resp' = [op |-> "generate_video", status |-> 200,
              body |-> [id |-> uid, video_url |-> <<"/static/video/">> \o uid \o <<".mp4">>]]
  /\ nextUid' = IF music_id = <<>> THEN nextUid + 1 ELSE nextUid
  /\ UNCHANGED <<keyIn, rng, seeded, calls, audioDir, uploadDir, midiDir, issued>>

\* GET /api/export/audio/{music_id}.{ext}
ExportAudio(music_id, ext) ==
  /\ resp' = [op |-> "export_audio", req |-> [music_id |-> music_id, ext |-> ext],
              result |-> export_audio(music_id, ext)]
  /\ UNCHANGED <<keyIn, rng, seeded, calls, storeVars>>

\* GET /api/export/stems/{music_id}
ExportStems(music_id) ==
  /\ audioDir' = stemsLoop(audioDir, music_id, Len(STEM_NAMES))
  /\ resp' = [op |-> "export_stems", status |-> 200,
              body |-> [id |-> music_id,
                        stems |-> [n \in 1..Len(STEM_NAMES) |->
                                     <<"/static/audio/">> \o stem_path(music_id, STEM_NAMES[n])]]]
  /\ UNCHANGED <<keyIn, rng, seeded, calls, uploadDir, midiDir, issued, nextUid>>

\* GET /api/export/midi/{music_id}
ExportMidi(music_id) ==
  /\ midiDir' = midiDir \cup {music_id \o <<".mid.txt">>}
  /\ resp' = [op |-> "export_midi", status |-> 200,
              body |-> [id |-> music_id,
                        midi_url |-> <<"/static/midi/">> \o music_id \o <<".mid.txt">>]]
  /\ UNCHANGED <<keyIn, rng, seeded, calls, audioDir, uploadDir, issued, nextUid>>

\* POST /api/remix
Remix(style, filename) ==
  /\ nextUid < MaxUids
  /\ LET uid == uuid4(nextUid + 1)
         ext == orDefault(splitext1(filename), <<".mp3">>)
         freq10 == REMIX_FREQS10[randbelow(rng, Len(REMIX_FREQS10)) + 1]
     IN /\ uploadDir' = uploadDir \cup {<<"remix_">> \o uid \o ext}
        /\ audioDir' = sine_wave_to_wav(audioDir, remix_out(uid), 8, freq10, 30)
        /\ resp' = [op |-> "remix", status |-> 200,
                    body |-> [id |-> uid, style |-> style, audio_url |-> audio_url(uid)]]
        /\ issued' = issued \cup {[id |-> uid, op |-> "remix"]}
  /\ rng' = rngNext(rng)
  /\ nextUid' = nextUid + 1
  /\ seeded' = -1
  /\ UNCHANGED <<keyIn, calls, midiDir>>

\* POST /api/master
MasterTrack(music_id, preset) ==
  /\ resp' = [op |-> "master_track", req |-> [music_id |-> music_id, preset |-> preset],
              result |-> master_track(music_id, preset)]
  /\ UNCHANGED <<keyIn, rng, seeded, calls, storeVars>>

(* ---------------------------- specifications --------------------------- *)

InitStore ==
  /\ audioDir = <<>>
  /\ uploadDir = {}
  /\ midiDir = {}
  /\ issued = {}
  /\ nextUid = 0

InitTheory ==
  /\ rng \in 0..(RngMod - 1)
  /\ seeded = -1
  /\ calls = <<>>
  /\ resp = NoResp

Init ==
  /\ keyIn \in Keys
  /\ InitTheory
  /\ InitStore

Next ==
  \/ BuildScale
  \/ GenerateChords
  \/ \E bars \in Bars, bpm \in Bpms : GenerateMelody(bars, bpm)

Spec == Init /\ [][Next]_vars

NextScale ==
  \/ BuildScale
  \/ GenerateChords

SpecScale == Init /\ [][NextScale]_vars

InitSeeded ==
  /\ keyIn \in SeededKeys
  /\ InitTheory
  /\ InitStore

NextSeeded ==
  \/ \E s \in Seeds : Seed(s)
  \/ \E bars \in Bars, bpm \in SeededBpms : GenerateMelody(bars, bpm)

SpecSeeded == InitSeeded /\ [][NextSeeded]_vars

\* the audio directory starts empty; the process starts from one of the seeds
InitStorage ==
  /\ keyIn = <<>>
  /\ rng \in Seeds
  /\ seeded = -1
  /\ calls = <<>>
  /\ resp = NoResp
  /\ InitStore

NextStorage ==
  \/ \E filename \in Filenames : UploadReference(filename)
  \/ \E filename \in Filenames : UploadVoice(filename)
  \/ \E bpm \in GenBpms : GenerateMusic(bpm)
  \/ \E music_id \in VideoIds : GenerateVideo(music_id)
  \/ \E music_id \in ReadIds, ext \in ExportExts : ExportAudio(music_id, ext)
  \/ \E music_id \in StemIds : ExportStems(music_id)
  \/ \E music_id \in MidiIds : ExportMidi(music_id)
  \/ \E style \in Styles, filename \in Filenames : Remix(style, filename)
  \/ \E music_id \in ReadIds, preset \in Presets : MasterTrack(music_id, preset)

SpecStorage == InitStorage /\ [][NextStorage]_vars

(* ------------------------------- claims -------------------------------- *)

C == <<"C">>
Cs == <<"C","#">>
D == <<"D">>
Ds == <<"D","#">>
E == <<"E">>
F == <<"F">>
Fs == <<"F","#">>
G == <<"G">>
Gs == <<"G","#">>
A == <<"A">>
As == <<"A","#">>
B == <<"B">>

PitchNames == <<C, Cs, D, Ds, E, F, Fs, G, Gs, A, As, B>>

\* the step pattern a quality stands for in the specification
patternOf(q) == IF q = sMajor THEN <<2, 2, 1, 2, 2, 2, 1>> ELSE <<2, 1, 2, 2, 1, 2, 2>>

RECURSIVE sumFirst(_, _)
sumFirst(p, i) == IF i = 0 THEN 0 ELSE sumFirst(p, i - 1) + p[i]

scaleResp == resp.op = "build_scale"

\* C1: for every valid tonic T and quality Q in {Major, Minor}, build_scale("T Q")
\* returns exactly 7 pitch names, the first is T and element i is the pitch
\* class at index (index(T) + sum of the first i steps of Q's pattern) mod 12;
\* build_scale("C Major") = [C,D,E,F,G,A,B], build_scale("A Minor") = [A,B,C,D,E,F,G]
C1_ScaleOfValidKey ==
  /\ \A t \in 1..12, q \in MajorMinor :
       (scaleResp /\ resp.req.key = keyOf(PitchNames[t], q)) =>
         /\ resp.result.error = "none"
         /\ Len(resp.result.scale) = 7
         /\ resp.result.scale[1] = PitchNames[t]
         /\ \A i \in 1..6 :
              resp.result.scale[i + 1] =
                PitchNames[((t - 1 + sumFirst(patternOf(q), i)) % 12) + 1]
  /\ (scaleResp /\ resp.req.key = keyOf(C, sMajor)) =>
       resp.result.scale = <<C, D, E, F, G, A, B>>
  /\ (scaleResp /\ resp.req.key = keyOf(A, sMinor)) =>
       resp.result.scale = <<A, B, C, D, E, F, G>>

\* build_scale("F# Minor") has been called and wrapped around the octave
C1_Witness ==
  /\ scaleResp
  /\ resp.req.key = keyOf(Fs, sMinor)
  /\ resp.result.scale = <<Fs, Gs, A, B, Cs, D, E>>

\* C2: for every key "X Q" whose tonic X is not one of the 12 pitch classes,
\* build_scale("X Q") returns the scale of build_scale("C Q"); build_scale("Z Major")
\* is the scale of C Major
C2_InvalidTonicIsC ==
  /\ \A x \in InvalidTonics, q \in Qualities :
       (scaleResp /\ resp.req.key = keyOf(x, q)) =>
         resp.result = build_scale(keyOf(C, q))
  /\ (scaleResp /\ resp.req.key = keyOf(<<"Z">>, sMajor)) =>
       resp.result = [error |-> "none", scale |-> <<C, D, E, F, G, A, B>>]

\* build_scale("Db Minor") has returned the scale of C Minor
C2_Witness ==
  /\ scaleResp
  /\ resp.req.key = keyOf(<<"D","b">>, sMinor)
  /\ resp.result.scale = <<C, D, Ds, F, G, Gs, As>>

\* C3: build_scale never fails: for every key string (empty, one token, three
\* or more tokens included) it returns 7 pitch names and raises no error
C3_NeverFails ==
  scaleResp =>
    /\ resp.result.error = "none"
    /\ Len(resp.result.scale) = 7
    /\ \A i \in 1..7 : \E t \in 1..12 : resp.result.scale[i] = PitchNames[t]

\* build_scale has returned a scale for the empty key, or for a key of three tokens
C3_Witness ==
  /\ scaleResp
  /\ resp.req.key \in {<<>>} \cup ThreeTokenKeys
  /\ resp.result.scale = <<C, D, E, F, G, A, B>>

\* C4 as claimed: for a valid tonic T and a quality Q that is neither Major nor
\* Minor, build_scale("T Q") returns the scale of build_scale("T Major")
C4_InvalidQualityIsMajor ==
  \A t \in ValidTonics, q \in OtherQualities :
    (scaleResp /\ resp.req.key = keyOf(t, q)) =>
      resp.result = build_scale(keyOf(t, sMajor))

MajLikeQualities == {<<"m","a","j","o","r">>, <<"M","A","J","7">>}
NonMajQualities == {<<"M","a">>, <<"m","i","n">>, <<"D","o","r","i","a","n">>}

\* C4 amended: for a valid tonic T and a quality Q that is neither Major nor
\* Minor, build_scale("T Q") returns the scale of "T Major" when Q begins with
\* "maj" in any letter case, and the scale of "T Minor" for every other Q
C4_QualityByMajPrefix ==
  /\ OtherQualities = MajLikeQualities \cup NonMajQualities
  /\ \A t \in ValidTonics, q \in MajLikeQualities :
       (scaleResp /\ resp.req.key = keyOf(t, q)) =>
         resp.result = build_scale(keyOf(t, sMajor))
  /\ \A t \in ValidTonics, q \in NonMajQualities :
       (scaleResp /\ resp.req.key = keyOf(t, q)) =>
         resp.result = build_scale(keyOf(t, sMinor))

\* build_scale("A Dorian") has returned the scale of A Minor
C4_Witness ==
  /\ scaleResp
  /\ resp.req.key = keyOf(A, <<"D","o","r","i","a","n">>)
  /\ resp.result.scale = <<A, B, C, D, E, F, G>>

chordsResp == resp.op = "generate_chords"

\* C5: generate_chords(key) returns the input key and the 4 labels
\* [s[0], s[5]+"m", s[3], s[4]] with s = build_scale(key), whatever the quality;
\* generate_chords("C Major") gives [C, Am, F, G]
C5_Progression ==
  /\ chordsResp =>
       /\ resp.status = 200
       /\ resp.body.key = keyIn
       /\ Len(resp.body.progression) = 4
       /\ LET s == build_scale(keyIn).scale IN
          resp.body.progression = <<s[1], s[6] \o <<"m">>, s[4], s[5]>>
  /\ (chordsResp /\ keyIn = keyOf(C, sMajor)) =>
       resp.body.progression = <<C, <<"A","m">>, F, G>>

\* generate_chords("A Minor") has returned [A, Fm, D, E]
C5_Witness ==
  /\ chordsResp
  /\ keyIn = keyOf(A, sMinor)
  /\ resp.body.progression = <<A, <<"F","m">>, D, E>>

melodyResp == resp.op = "generate_melody"

\* C6 as claimed: for every key, bar count and bpm, generate_melody returns a
\* melody of exactly bars * 4 entries and echoes the input key and bpm
C6_MelodyLength ==
  melodyResp =>
    /\ resp.status = 200
    /\ Len(resp.body.melody) = resp.req.bars * 4
    /\ resp.body.key = keyIn
    /\ resp.body.bpm = resp.req.bpm

\* C6 amended: the melody has bars * 4 entries when bars >= 0 and is empty when
\* bars < 0; the input key and bpm are echoed
C6_MelodyLengthNonNegative ==
  melodyResp =>
    /\ resp.status = 200
    /\ resp.req.bars >= 0 => Len(resp.body.melody) = resp.req.bars * 4
    /\ resp.req.bars < 0 => resp.body.melody = <<>>
    /\ resp.body.key = keyIn
    /\ resp.body.bpm = resp.req.bpm

\* generate_melody has returned 4 entries for one bar at bpm 120
C6_Witness ==
  /\ melodyResp
  /\ resp.req.bars = 1
  /\ resp.req.bpm = 120
  /\ resp.body.bpm = 120
  /\ Len(resp.body.melody) = 4

\* C7: every entry of a melody has a note made of a member of build_scale(key)
\* followed by "4" or "5", and a duration in {0.5, 1.0, 2.0}
C7_MelodyEntries ==
  melodyResp =>
    /\ resp.status = 200
    /\ LET s == build_scale(keyIn).scale IN
       \A i \in 1..Len(resp.body.melody) :
         /\ \E d \in 1..Len(s), o \in {"4", "5"} :
              resp.body.melody[i].note = s[d] \o <<o>>
         /\ resp.body.melody[i].duration \in {"0.5", "1.0", "2.0"}

\* a melody in F# Minor holds the two-beat note C#5 and a note of octave 4
C7_Witness ==
  /\ melodyResp
  /\ keyIn = keyOf(Fs, sMinor)
  /\ \E i, j \in 1..Len(resp.body.melody) :
       /\ resp.body.melody[i] = [note |-> <<"C","#","5">>, duration |-> "2.0"]
       /\ resp.body.melody[j].note[Len(resp.body.melody[j].note)] = "4"

\* C8: two calls of generate_melody with identical key, bars and bpm, each made
\* right after seeding the random source with the same seed, return identical
\* melodies
C8_SeededDeterminism ==
  (Len(calls) = 2 /\ calls[1].seed = calls[2].seed /\ calls[1].req = calls[2].req) =>
    calls[1].melody = calls[2].melody

\* two calls from the same seed returned the same non-empty melody, and a
\* later call with the same inputs from another random state returned another
C8_Witness ==
  /\ Len(calls) = 2
  /\ calls[1].seed = calls[2].seed
  /\ calls[1].req = calls[2].req
  /\ calls[1].melody = calls[2].melody
  /\ calls[1].melody # <<>>
  /\ melodyResp
  /\ resp.req = calls[2].req
  /\ resp.body.melody # calls[2].melody

generatedIds == {i.id : i \in {j \in issued : j.op = "generate_music"}}
issuedIds == {i.id : i \in issued}

\* C9: once generate_music has returned an id, in every later state
\* export_audio(id, ext) for every ext returns the stored WAV file and
\* master_track(id, preset) returns the id, the preset and /static/audio/<id>.wav
C9_GeneratedStaysAvailable ==
  \A id \in generatedIds :
    /\ \A ext \in ExportExts :
         LET r == export_audio(id, ext) IN
         /\ r.status = 200
         /\ r.path = id \o <<".wav">>
         /\ r.file.seconds = 10
    /\ \A preset \in Presets :
         master_track(id, preset) =
           [status |-> 200,
            body |-> [id |-> id, preset |-> preset,
                      audio_url |-> <<"/static/audio/">> \o id \o <<".wav">>]]

\* after both uuids were handed out and stems were written for a generated
\* id, export_audio of that id has returned its file
C9_Witness ==
  /\ resp.op = "export_audio"
  /\ resp.req.music_id \in generatedIds
  /\ resp.result.status = 200
  /\ nextUid >= 2
  /\ (resp.req.music_id \o <<"_", "vocals", ".wav">>) \in DOMAIN audioDir

readResp == resp.op \in {"export_audio", "master_track"}

\* C10: export_audio(id, ext) and master_track(id) return 404 "Audio not found"
\* for every id that no earlier generate_music or remix call returned, and such
\* a failed call leaves the stored files unchanged
C10_UnknownIdNotFound ==
  /\ [](readResp /\ resp.req.music_id \notin issuedIds => resp.result = NotFound)
  /\ [][(readResp' /\ resp'.result = NotFound) =>
          UNCHANGED <<audioDir, uploadDir, midiDir>>]_vars

====
